---- MODULE Spec2Model ----
(***************************************************************************)
(* A model of spirals.py: the Spiral growth/culling engine and the         *)
(* SpiralsHandler lifecycle manager.                                       *)
(*                                                                         *)
(* Numbers.  The program computes with floating point; the model computes  *)
(* with fixed point, rounding every product to the nearest representable   *)
(* value as floating point does.  A coordinate is an integer number of     *)
(* 1/Unit view-space units, eta is a number of 1/EtaDen, growth_rate a     *)
(* number of 1/RateDen per millisecond, dT a whole number of milliseconds. *)
(* A point is <<x, y>>, a line is <<p1, p2>>.                              *)
(***************************************************************************)
EXTENDS Integers, Sequences, FiniteSets

VARIABLES
    spirals,             \* SpiralsHandler.spirals: sequence of Spiral records
    max_active_spirals,  \* SpiralsHandler.max_active_spirals
    view_size,           \* SpiralsHandler.view_size
    status,              \* "running", or the exception that ended the process
    op,                  \* the last call made: its name and arguments
    prev,                \* spirals as they were when the last call was made
    ticks                \* number of calls made so far

vars == <<spirals, max_active_spirals, view_size, status, op, prev, ticks>>

----------------------------------------------------------------------------
(* Fixed-point arithmetic *)

Unit == 1000
EtaDen == 10000
RateDen == 10000
TrigDen == 10000

Abs(a) == IF a < 0 THEN -a ELSE a

\* a / d rounded to the nearest integer (d > 0)
RDiv(a, d) == (a + d \div 2) \div d

\* (a * k) / d rounded to the nearest integer, evaluated without forming a * k
MulDiv(a, k, d) == k * (a \div d) + RDiv(k * (a % d), d)

Add(p, q) == <<p[1] + q[1], p[2] + q[2]>>
Sub(p, q) == <<p[1] - q[1], p[2] - q[2]>>

\* np.linalg.norm(v) > t, for t in view-space units
NormExceeds(v, t) ==
    \/ Abs(v[1]) > t * Unit
    \/ Abs(v[2]) > t * Unit
    \/ v[1] * v[1] + v[2] * v[2] > (t * Unit) * (t * Unit)

----------------------------------------------------------------------------
(* Geometry primitives *)

\* cos and sin of i*2*pi/n, in 1/TrigDen, for the angles of the 3..6-gons
Cos(deg) ==
    CASE deg = 0 -> 10000
      [] deg \in {60, 300} -> 5000
      [] deg \in {72, 288} -> 3090
      [] deg \in {90, 270} -> 0
      [] deg \in {120, 240} -> -5000
      [] deg \in {144, 216} -> -8090
      [] deg = 180 -> -10000

Sin(deg) ==
    CASE deg \in {0, 180} -> 0
      [] deg \in {60, 120} -> 8660
      [] deg = 72 -> 9511
      [] deg = 90 -> 10000
      [] deg = 144 -> 5878
      [] deg = 216 -> -5878
      [] deg \in {240, 300} -> -8660
      [] deg = 270 -> -10000
      [] deg = 288 -> -9511

rotate(p, deg) ==
    << MulDiv(p[1], Cos(deg), TrigDen) - MulDiv(p[2], Sin(deg), TrigDen),
       MulDiv(p[1], Sin(deg), TrigDen) + MulDiv(p[2], Cos(deg), TrigDen) >>

\* eta in 1/EtaDen
eta_point(line, eta) ==
    << line[1][1] + MulDiv(line[2][1] - line[1][1], eta, EtaDen),
       line[1][2] + MulDiv(line[2][2] - line[1][2], eta, EtaDen) >>

RECURSIVE SumCoord(_, _)
SumCoord(points, c) ==
    IF points = <<>> THEN 0 ELSE Head(points)[c] + SumCoord(Tail(points), c)

average_point_of_lines(lines) ==
    LET centers == [k \in 1..Len(lines) |-> eta_point(lines[k], EtaDen \div 2)]
    IN  << RDiv(SumCoord(centers, 1), Len(lines)),
           RDiv(SumCoord(centers, 2), Len(lines)) >>

----------------------------------------------------------------------------
(* class Spiral *)

MAX_LINES == 10000
MIN_LENGHT == 10
MAX_SPIRAL_CENTER_DEVIATION == 10

\* the asserts of Spiral.__init__
ValidSpiralParams(chirality, eta, growth_rate) ==
    /\ chirality \in {"+", "-"}
    /\ eta > 0 /\ eta < EtaDen
    /\ growth_rate > 0

\* a faulty Reverse, which leaves the order as it is (C6 is tested against it)
SameOrder(seq) == seq

Reverse(seq) == [k \in 1..Len(seq) |-> seq[Len(seq) + 1 - k]]

\* a faulty PrevVertex, without Python's wrap of the index -1 (C7 is tested
\* against it)
PrevVertexNoWrap(poly_vertices, k) ==
    poly_vertices[IF k = 1 THEN 1 ELSE k - 1]

\* poly_vertices[i-1] of the loop in Spiral.__init__, for the 1-based position k
\* of poly_vertices[i]: Python's index -1 is the last vertex
PrevVertex(poly_vertices, k) ==
    poly_vertices[IF k = 1 THEN Len(poly_vertices) ELSE k - 1]

InitialLines(poly_vertices, center) ==
    [k \in 1..Len(poly_vertices) |->
        << Add(PrevVertex(poly_vertices, k), center),
           Add(poly_vertices[k], center) >>]

\* id stands for the identity of the Python object
Spiral(id, poly_vertices, chirality, view, center, eta, growth_rate) ==
    [ id          |-> id,
      chirality   |-> chirality,
      view_size   |-> view,
      center      |-> center,
      eta         |-> eta,
      growth_rate |-> growth_rate,
      active      |-> TRUE,
      n_vert      |-> Len(poly_vertices),
      lines       |-> InitialLines(IF chirality = "-" THEN Reverse(poly_vertices)
                                                       ELSE poly_vertices,
                                   center) ]

\* a faulty Inside, which counts the bounds as inside (C10 is tested against it)
InsideOrOnBound(c, bound) == c >= 0 /\ c <= bound

Inside(c, bound) == c > 0 /\ c < bound

_is_line_visible(view, line) ==
    \/ Inside(line[1][1], view[1])
    \/ Inside(line[1][2], view[2])
    \/ Inside(line[2][1], view[1])
    \/ Inside(line[2][2], view[2])

\* self.lines[-self.n_vert:]
LastLines(lines, n) ==
    IF Len(lines) <= n THEN lines ELSE SubSeq(lines, Len(lines) - n + 1, Len(lines))

_spiral_center(s) ==
    IF Len(s.lines) > 0 THEN average_point_of_lines(LastLines(s.lines, s.n_vert))
                        ELSE s.center

\* s*(line - spiral_center) + self.center, with s = 1 + growth_rate*dT
ScalePoint(p, pivot, center, growth_rate, dT) ==
    << center[1] + MulDiv(p[1] - pivot[1], RateDen + growth_rate * dT, RateDen),
       center[2] + MulDiv(p[2] - pivot[2], RateDen + growth_rate * dT, RateDen) >>

Rescale(lines, pivot, center, growth_rate, dT) ==
    [k \in 1..Len(lines) |->
        << ScalePoint(lines[k][1], pivot, center, growth_rate, dT),
           ScalePoint(lines[k][2], pivot, center, growth_rate, dT) >>]

\* Python list indexing lines[j]: a negative j counts from the end
PyIndexOk(lines, j) == j >= -Len(lines) /\ j < Len(lines)
PyGet(lines, j) == lines[IF j >= 0 THEN j + 1 ELSE Len(lines) + j + 1]

\* the outcome of a piece of code: it went on ("ok"), left the loop ("done"),
\* or ended the process ("SystemExit", "IndexError")
Outcome(lines, outcome) == [lines |-> lines, outcome |-> outcome]

\* for i in range(self.n_vert): ... self.lines.append(...)
RECURSIVE AppendLines(_, _, _, _)
AppendLines(lines, n_vert, eta, count) ==
    IF count = 0 THEN Outcome(lines, "ok")
    ELSE IF ~PyIndexOk(lines, Len(lines) - n_vert + 1) THEN Outcome(lines, "IndexError")
    ELSE AppendLines(
            Append(lines, << lines[Len(lines)][2],
                             eta_point(PyGet(lines, Len(lines) - n_vert + 1), eta) >>),
            n_vert, eta, count - 1)

\* sys.exit("Too many lines in spiral")
\* a faulty SysExit, which ends the loop and lets step return (C5 is tested
\* against it)
NoSysExit(lines) == Outcome(lines, "done")

SysExit(lines) == Outcome(lines, "SystemExit")

\* if len(self.lines) > self.MAX_LINES: sys.exit(...)
CheckMaxLines(g) ==
    IF g.outcome = "ok" /\ Len(g.lines) > MAX_LINES THEN SysExit(g.lines) ELSE g

\* the test of the while loop, on self.lines[-1]
LastLineTooLong(lines) ==
    NormExceeds(Sub(lines[Len(lines)][1], lines[Len(lines)][2]), MIN_LENGHT)

\* one evaluation of the while test and, if it holds, of the loop body
GrowOnce(g, n_vert, eta) ==
    IF g.outcome # "ok" THEN g
    ELSE IF g.lines = <<>> THEN Outcome(g.lines, "IndexError")
    ELSE IF ~LastLineTooLong(g.lines) THEN Outcome(g.lines, "done")
    ELSE CheckMaxLines(AppendLines(g.lines, n_vert, eta, n_vert))

\* k rounds of the while loop (a round after the loop has ended changes
\* nothing), split in halves to bound the depth of evaluation
RECURSIVE GrowRounds(_, _, _, _)
GrowRounds(g, n_vert, eta, k) ==
    IF g.outcome # "ok" THEN g
    ELSE IF k = 1 THEN GrowOnce(g, n_vert, eta)
    ELSE GrowRounds(GrowRounds(g, n_vert, eta, k \div 2), n_vert, eta, k - k \div 2)

\* the while loop, run to its end
RECURSIVE GrowLoop(_, _, _)
GrowLoop(g, n_vert, eta) ==
    IF g.outcome # "ok" THEN g
    ELSE GrowLoop(GrowRounds(g, n_vert, eta, MAX_LINES), n_vert, eta)

Cull(view, lines) == SelectSeq(lines, LAMBDA line : _is_line_visible(view, line))

\* Spiral.step(dT): the spiral afterwards and how the call ended ("done": it
\* returned)
AfterGrowth(s, g) ==
    IF g.outcome = "done"
    THEN [spiral |-> [s EXCEPT !.lines = Cull(s.view_size, g.lines)], outcome |-> "done"]
    ELSE [spiral |-> [s EXCEPT !.lines = g.lines], outcome |-> g.outcome]

\* if self.active:
\* a faulty ShouldGrow, which ignores the active flag (C4 is tested against it)
GrowAlways(s) == TRUE

ShouldGrow(s) == s.active

\* the lines after the rescale and the growth loop, before the culling
Grown(s, dT) ==
    LET lines == Rescale(s.lines, _spiral_center(s), s.center, s.growth_rate, dT)
    IN  IF ShouldGrow(s) THEN GrowLoop(Outcome(lines, "ok"), s.n_vert, s.eta)
                         ELSE Outcome(lines, "done")

\* np.linalg.norm(spiral_center-self.center) > self.MAX_SPIRAL_CENTER_DEVIATION
Degenerate(s) ==
    NormExceeds(Sub(_spiral_center(s), s.center), MAX_SPIRAL_CENTER_DEVIATION)

SpiralStep(s, dT) ==
    IF Degenerate(s)
    THEN [spiral |-> [s EXCEPT !.lines = <<>>], outcome |-> "done"]
    ELSE AfterGrowth(s, Grown(s, dT))

----------------------------------------------------------------------------
(* class SpiralsHandler *)

\* bounds of the exploration
MaxOps == 3
MaxCoord == 200000000
MaxChoice == 1
MaxActive == 1

\* the constructor's arguments: view sizes (in view-space units) and the
\* vertex counts of the base shapes
ViewSizes == {<<4, 4>>, <<40, 40>>}
n_vertices_base_shapes == <<3, 4>>

\* the elapsed times (ms) a step is called with, and the numbers of steps
\* take_n_steps is called with
DTs == {0, 20000}
NSteps == {1, 2}

PolyVertices(n) == [k \in 1..n |-> rotate(<<0, -Unit>>, ((k - 1) * 360) \div n)]

poly_vertices == [k \in 1..Len(n_vertices_base_shapes) |->
                     PolyVertices(n_vertices_base_shapes[k])]
etas == <<1500, 1000, 500>>
growth_rates == <<7, 8, 9, 10>>
chiralities == <<"+", "-">>

\* random.choice(pool): the k-th element of the pool, counting round the pool
Choice(pool, k) == pool[((k - 1) % Len(pool)) + 1]

\* the four random.choice of add_random_spiral; the model draws the k-th element
\* of every pool together, for k up to MaxChoice
RandomChoices ==
    {[pv          |-> Choice(poly_vertices, k),
      eta         |-> Choice(etas, k),
      growth_rate |-> Choice(growth_rates, k),
      chirality   |-> Choice(chiralities, k)] : k \in 1..MaxChoice}

\* self.view_size/2
Half(view) == <<view[1] \div 2, view[2] \div 2>>

\* sum([s.active for s in self.spirals])
ActiveCount(sp) == Cardinality({i \in DOMAIN sp : sp[i].active})

\* a faulty add_random_spiral, with <= for < (C1 is tested against it)
add_random_spiral_at_max(sp, id, pv, eta, growth_rate, chirality) ==
    IF ActiveCount(sp) <= max_active_spirals
    THEN Append(sp, Spiral(id, pv, chirality, view_size, Half(view_size), eta, growth_rate))
    ELSE sp

\* a faulty add_random_spiral, which puts the spiral first (C2 is tested against it)
add_random_spiral_first(sp, id, pv, eta, growth_rate, chirality) ==
    IF ActiveCount(sp) < max_active_spirals
    THEN <<Spiral(id, pv, chirality, view_size, Half(view_size), eta, growth_rate)>> \o sp
    ELSE sp

add_random_spiral(sp, id, pv, eta, growth_rate, chirality) ==
    IF ActiveCount(sp) < max_active_spirals
    THEN Append(sp, Spiral(id, pv, chirality, view_size, Half(view_size), eta, growth_rate))
    ELSE sp

\* active_spirals, as positions in self.spirals
ActiveSpirals(sp) == {i \in DOMAIN sp : sp[i].active}

\* disable_random_spiral, random.choice having picked position i (any position
\* when there is no active spiral)
disable_random_spiral(sp, i) ==
    IF ActiveSpirals(sp) # {} THEN [sp EXCEPT ![i].active = FALSE] ELSE sp

DisableChoice(sp) == IF ActiveSpirals(sp) # {} THEN ActiveSpirals(sp) ELSE {0}

\* a faulty random_spiral_transition, which retires no spiral (C3 is tested
\* against it)
transition_without_disable(sp, i, id, pv, eta, growth_rate, chirality) ==
    IF Len(sp) > 0
    THEN add_random_spiral(sp, id, pv, eta, growth_rate, chirality)
    ELSE sp

random_spiral_transition(sp, i, id, pv, eta, growth_rate, chirality) ==
    IF Len(sp) > 0
    THEN add_random_spiral(disable_random_spiral(sp, i), id, pv, eta, growth_rate, chirality)
    ELSE sp

\* for spiral in self.spirals: spiral.step(dT), from position i on; an exception
\* ends the loop
RECURSIVE StepEach(_, _, _)
StepEach(f, dT, i) ==
    IF i > Len(f.spirals) \/ f.outcome # "done" THEN f
    ELSE LET r == SpiralStep(f.spirals[i], dT)
         IN  StepEach([spirals |-> [f.spirals EXCEPT ![i] = r.spiral],
                       outcome |-> r.outcome],
                      dT, i + 1)

\* a faulty RemoveEmpty, which removes nothing (C9 is tested against it)
RemoveNothing(sp) == sp

\* self.spirals = [spiral for spiral in self.spirals if len(spiral.lines)>0]
RemoveEmpty(sp) == SelectSeq(sp, LAMBDA s : Len(s.lines) > 0)

step(sp, dT) ==
    LET f == StepEach([spirals |-> sp, outcome |-> "done"], dT, 1)
    IN  IF f.outcome = "done"
        THEN [spirals |-> RemoveEmpty(f.spirals), outcome |-> "done"]
        ELSE f

\* for i in range(n): spiral.step(dT)
RECURSIVE StepTimes(_, _, _)
StepTimes(r, dT, n) ==
    IF n = 0 \/ r.outcome # "done" THEN r
    ELSE StepTimes(SpiralStep(r.spiral, dT), dT, n - 1)

RECURSIVE take_n_steps(_, _, _, _)
take_n_steps(f, n, dT, i) ==
    IF i > Len(f.spirals) \/ f.outcome # "done" THEN f
    ELSE LET r == StepTimes([spiral |-> f.spirals[i], outcome |-> "done"], dT, n)
         IN  take_n_steps([spirals |-> [f.spirals EXCEPT ![i] = r.spiral],
                           outcome |-> r.outcome],
                          n, dT, i + 1)

\* The numbers of n steps of dT fit the model's integers: one step takes a
\* coordinate at distance d of the center to at most s*(d + 10 units), the pivot
\* being within MAX_SPIRAL_CENTER_DEVIATION of the center. A call whose numbers
\* do not fit is not explored.
RECURSIVE Pow(_, _)
Pow(b, n) == IF n = 0 THEN 1 ELSE b * Pow(b, n - 1)

ScaleCeil(growth_rate, dT) == (RateDen + growth_rate * dT) \div RateDen + 1

SpiralOverflows(s, n, dT) ==
    \E k \in 1..Len(s.lines), e \in 1..2, a \in 1..2 :
        Abs(s.lines[k][e][a] - s.center[a]) + n * MAX_SPIRAL_CENTER_DEVIATION * Unit
            > MaxCoord \div Pow(ScaleCeil(s.growth_rate, dT), n)

Overflows(sp, n, dT) == \E i \in 1..Len(sp) : SpiralOverflows(sp[i], n, dT)

Status(outcome) == IF outcome = "done" THEN "running" ELSE outcome

Call(name, n, dT) == [name |-> name, n |-> n, dT |-> dT]

\* SpiralsHandler(view_size, n_vertices_base_shapes, max_active_spirals)
Init ==
    /\ \E v \in ViewSizes : view_size = <<v[1] * Unit, v[2] * Unit>>
    /\ max_active_spirals \in 0..MaxActive
    /\ \E c \in RandomChoices :
          spirals = add_random_spiral(<<>>, 0, c.pv, c.eta, c.growth_rate, c.chirality)
    /\ status = "running"
    /\ op = Call("__init__", 0, 0)
    /\ prev = <<>>
    /\ ticks = 0

\* A call is made while the process runs. MaxOps calls are explored.
Called(name, n, dT) ==
    /\ status = "running"
    /\ ticks < MaxOps
    /\ ticks' = ticks + 1
    /\ op' = Call(name, n, dT)
    /\ prev' = spirals
    /\ UNCHANGED <<max_active_spirals, view_size>>

AddRandomSpiral ==
    /\ Called("add_random_spiral", 0, 0)
    /\ \E c \in RandomChoices :
          spirals' = add_random_spiral(spirals, ticks + 1, c.pv, c.eta, c.growth_rate,
                                       c.chirality)
    /\ UNCHANGED status

DisableRandomSpiral ==
    /\ Called("disable_random_spiral", 0, 0)
    /\ \E i \in DisableChoice(spirals) : spirals' = disable_random_spiral(spirals, i)
    /\ UNCHANGED status

RandomSpiralTransition ==
    /\ Called("random_spiral_transition", 0, 0)
    /\ \E i \in DisableChoice(spirals), c \in RandomChoices :
          spirals' = random_spiral_transition(spirals, i, ticks + 1, c.pv, c.eta,
                                              c.growth_rate, c.chirality)
    /\ UNCHANGED status

Step ==
    \E dT \in DTs :
        /\ Called("step", 0, dT)
        /\ ~Overflows(spirals, 1, dT)
        /\ LET f == step(spirals, dT)
           IN  spirals' = f.spirals /\ status' = Status(f.outcome)

TakeNSteps ==
    \E n \in NSteps, dT \in DTs :
        /\ Called("take_n_steps", n, dT)
        /\ ~Overflows(spirals, n, dT)
        /\ LET f == take_n_steps([spirals |-> spirals, outcome |-> "done"], n, dT, 1)
           IN  spirals' = f.spirals /\ status' = Status(f.outcome)

Next ==
    \/ AddRandomSpiral
    \/ DisableRandomSpiral
    \/ RandomSpiralTransition
    \/ Step
    \/ TakeNSteps

Spec == Init /\ [][Next]_vars

----------------------------------------------------------------------------
(* A Spiral on its own: constructed with any valid arguments, then stepped *)

MaxSpiralOps == 5

SpiralViews == {<<640, 640>>}
SpiralShapes == {3, 4, 5, 6}
SpiralEtas == {1, 1500}
SpiralRates == {10}
SpiralDTs == {0, 1000}

\* the center of the view, and a point on the line of the left edge of the view,
\* one unit above the view
SpiralCenters(view) == {Half(view), <<0, -Unit>>}

SpiralInit ==
    /\ \E v \in SpiralViews : view_size = <<v[1] * Unit, v[2] * Unit>>
    /\ max_active_spirals = 1
    /\ spirals = <<>>
    /\ status = "running"
    /\ op = Call("none", 0, 0)
    /\ prev = <<>>
    /\ ticks = 0

SpiralCalled(name, n, dT) ==
    /\ status = "running"
    /\ ticks < MaxSpiralOps
    /\ ticks' = ticks + 1
    /\ op' = Call(name, n, dT)
    /\ prev' = spirals
    /\ UNCHANGED <<max_active_spirals, view_size>>

Construct ==
    /\ spirals = <<>>
    /\ \E n \in SpiralShapes, chirality \in {"+", "-"}, center \in SpiralCenters(view_size),
          eta \in SpiralEtas, growth_rate \in SpiralRates :
          /\ SpiralCalled("Spiral", n, 0)
          /\ ValidSpiralParams(chirality, eta, growth_rate)
          /\ spirals' = <<Spiral(1, PolyVertices(n), chirality, view_size, center,
                                 eta, growth_rate)>>
    /\ UNCHANGED status

SetInactive ==
    /\ spirals # <<>>
    /\ spirals[1].active
    /\ SpiralCalled("active = False", 0, 0)
    /\ spirals' = [spirals EXCEPT ![1].active = FALSE]
    /\ UNCHANGED status

SpiralStepCall ==
    \E dT \in SpiralDTs :
        /\ spirals # <<>>
        /\ SpiralCalled("Spiral.step", 0, dT)
        /\ ~SpiralOverflows(spirals[1], 1, dT)
        /\ LET r == SpiralStep(spirals[1], dT)
           IN  spirals' = <<r.spiral>> /\ status' = Status(r.outcome)

SpiralNext ==
    \/ Construct
    \/ SetInactive
    \/ SpiralStepCall

SpiralSpec == SpiralInit /\ [][SpiralNext]_vars

----------------------------------------------------------------------------
(* Properties *)

Swapped(line) == <<line[2], line[1]>>

\* the spiral of sp that is the object s, if it is still there
Same(sp, s) == {k \in DOMAIN sp : sp[k].id = s.id}

\* a spiral just constructed
Fresh(s) == s.active /\ Len(s.lines) = s.n_vert /\ s.id = ticks

\* C1: at any time the number of active spirals of the handler is at most
\* max_active_spirals.
C1_ActiveAtMostMax == ActiveCount(spirals) <= max_active_spirals

\* an add_random_spiral called with max_active_spirals spirals active
C1_Witness ==
    /\ op.name = "add_random_spiral"
    /\ max_active_spirals >= 1
    /\ ActiveCount(prev) = max_active_spirals
    /\ ActiveCount(spirals) = max_active_spirals

\* C2: add_random_spiral changes nothing when max_active_spirals spirals are
\* active; otherwise it appends one active spiral after the spirals there were,
\* which it leaves as they were.
C2_AddAppendsOrNothing ==
    op.name = "add_random_spiral" =>
        IF ActiveCount(prev) = max_active_spirals
        THEN spirals = prev
        ELSE /\ Len(spirals) = Len(prev) + 1
             /\ SubSeq(spirals, 1, Len(prev)) = prev
             /\ Fresh(spirals[Len(spirals)])

\* an add_random_spiral that appended to a collection that was not empty
C2_Witness ==
    /\ op.name = "add_random_spiral"
    /\ Len(prev) >= 1
    /\ Len(spirals) = Len(prev) + 1

\* one active spiral of prev is inactive in spirals, the others are as they
\* were, and one fresh spiral is appended
SwappedOne ==
    /\ Len(spirals) = Len(prev) + 1
    /\ \E i \in DOMAIN prev :
          /\ prev[i].active
          /\ spirals[i] = [prev[i] EXCEPT !.active = FALSE]
          /\ \A j \in DOMAIN prev \ {i} : spirals[j] = prev[j]
    /\ Fresh(spirals[Len(spirals)])
    /\ ActiveCount(spirals) = ActiveCount(prev)

\* C3 as claimed: random_spiral_transition on a handler with a spiral retires
\* one active spiral and appends one fresh active spiral, so that the number of
\* active spirals is unchanged and the collection has one more; on a handler
\* with no spiral it changes nothing.
C3_Claim ==
    op.name = "random_spiral_transition" =>
        IF Len(prev) > 0 THEN SwappedOne ELSE spirals = prev

\* C3 as amended: the swap happens when the handler has an active spiral; when
\* it has spirals none of which is active, none is retired and a fresh active
\* spiral is appended if max_active_spirals > 0 (one more active spiral than
\* before), and nothing changes if max_active_spirals = 0; with no spiral
\* nothing changes.
C3_Amended ==
    op.name = "random_spiral_transition" =>
        IF Len(prev) = 0 THEN spirals = prev
        ELSE IF ActiveCount(prev) > 0 THEN SwappedOne
        ELSE IF max_active_spirals > 0
             THEN /\ Len(spirals) = Len(prev) + 1
                  /\ SubSeq(spirals, 1, Len(prev)) = prev
                  /\ Fresh(spirals[Len(spirals)])
                  /\ ActiveCount(spirals) = 1
             ELSE spirals = prev

\* a transition on a handler with an active spiral
C3_Witness ==
    /\ op.name = "random_spiral_transition"
    /\ ActiveCount(prev) > 0
    /\ Len(spirals) = Len(prev) + 1

C8_Claim ==
    \A i \in DOMAIN spirals :
        spirals[i].lines = <<>> =>
            /\ _spiral_center(spirals[i]) = spirals[i].center
            /\ \A dT \in DTs :
                  /\ SpiralStep(spirals[i], dT).outcome = "done"
                  /\ SpiralStep(spirals[i], dT).spiral.lines = <<>>

\* a spiral of a running handler that is active and has no line: take_n_steps
\* has emptied it and left it in the collection
C8_Witness ==
    /\ op.name = "take_n_steps"
    /\ status = "running"
    /\ \E i \in DOMAIN spirals : spirals[i].active /\ spirals[i].lines = <<>>

\* C9: when step returns, the collection holds, in the order they had, exactly
\* the spirals that have a line after one Spiral.step of dT, each as that one
\* step left it.
C9_StepDropsTheEmpty ==
    (op.name = "step" /\ status = "running") =>
        /\ \A k \in DOMAIN spirals : Len(spirals[k].lines) > 0
        /\ \A i \in DOMAIN prev :
              LET stepped == SpiralStep(prev[i], op.dT).spiral
              IN  /\ Len(stepped.lines) > 0 => \E k \in DOMAIN spirals : spirals[k] = stepped
                  /\ \A k \in Same(spirals, prev[i]) :
                        spirals[k] = stepped /\ spirals[k].active = prev[i].active
        /\ \A k \in DOMAIN spirals : \E i \in DOMAIN prev : prev[i].id = spirals[k].id
        /\ \A k1, k2 \in DOMAIN spirals :
              k1 < k2 => \E i1, i2 \in DOMAIN prev :
                            /\ i1 < i2
                            /\ prev[i1].id = spirals[k1].id
                            /\ prev[i2].id = spirals[k2].id

\* a step that removed a spiral and kept another
C9_Witness ==
    /\ op.name = "step"
    /\ status = "running"
    /\ Len(spirals) >= 1
    /\ Len(spirals) < Len(prev)

----------------------------------------------------------------------------
(* Properties of one spiral, under SpiralSpec *)

\* C5: Spiral.step never returns with more than MAX_LINES lines; the growth
\* that passes MAX_LINES ends in SystemExit at the end of the round of n_vert
\* appends that passed it, so that the list then has more than MAX_LINES lines
\* and at most MAX_LINES + n_vert.
C5_NeverBeyondMaxLines ==
    \A i \in DOMAIN spirals :
        /\ status = "running" => Len(spirals[i].lines) <= MAX_LINES
        /\ status = "SystemExit" =>
              /\ Len(spirals[i].lines) > MAX_LINES
              /\ Len(spirals[i].lines) <= MAX_LINES + spirals[i].n_vert

\* a Spiral.step that ended in SystemExit
C5_Witness ==
    /\ op.name = "Spiral.step"
    /\ status = "SystemExit"
    /\ Len(prev[1].lines) <= MAX_LINES

\* the initial lines of the spiral built like s with the other chirality
OtherRing(s) ==
    Spiral(s.id, PolyVertices(s.n_vert), IF s.chirality = "+" THEN "-" ELSE "+",
           s.view_size, s.center, s.eta, s.growth_rate).lines

\* C6 as claimed: the initial lines of a '+' spiral and of the '-' spiral of the
\* same shape, center, eta and growth rate are reverses of each other: the line
\* at position i (from 0) of one is the line at position N-1-i of the other
\* with its two points swapped.
C6_Claim ==
    op.name = "Spiral" =>
        LET a == spirals[1].lines
            b == OtherRing(spirals[1])
            n == spirals[1].n_vert
        IN  \A k \in 1..n : a[k] = Swapped(b[n + 1 - k])

\* C6 as amended: the line at position i (from 0) of one is the line at
\* position (N-i) mod N of the other with its two points swapped: position 0
\* answers to position 0, position i > 0 to position N-i.
C6_Amended ==
    op.name = "Spiral" =>
        LET a == spirals[1].lines
            b == OtherRing(spirals[1])
            n == spirals[1].n_vert
        IN  /\ Len(a) = n /\ Len(b) = n
            /\ \A k \in 1..n : a[k] = Swapped(b[((n + 1 - k) % n) + 1])

\* a '-' pentagon just constructed
C6_Witness ==
    /\ op.name = "Spiral"
    /\ spirals[1].chirality = "-"
    /\ op.n = 5

\* C7: a spiral just constructed from N vertices has N lines, each ending
\* where the next starts and the last ending where the first starts, and their
\* points are the N vertices moved by center.
C7_ClosedRing ==
    op.name = "Spiral" =>
        LET s == spirals[1]
            n == op.n
        IN  /\ Len(s.lines) = n
            /\ s.n_vert = n
            /\ \A k \in 1..n : s.lines[k][2] = s.lines[(k % n) + 1][1]
            /\ {s.lines[k][1] : k \in 1..n} = {Add(PolyVertices(n)[k], s.center) : k \in 1..n}
            /\ Cardinality({s.lines[k][1] : k \in 1..n}) = n

\* a hexagon just constructed off the middle of the view
C7_Witness ==
    /\ op.name = "Spiral"
    /\ op.n = 6
    /\ spirals[1].center # Half(view_size)

\* some coordinate of some point of the line is strictly between 0 and the size
\* of the view on its axis
StrictlyInView(view, line) ==
    \E e \in 1..2, a \in 1..2 : 0 < line[e][a] /\ line[e][a] < view[a]

\* a coordinate of a point of the line is 0 or the size of the view
OnBound(view, line) ==
    \E e \in 1..2, a \in 1..2 : line[e][a] = 0 \/ line[e][a] = view[a]

\* C10: when Spiral.step returns without having found the center too far, the
\* spiral has, in their order, exactly the lines rescaled and grown that have a
\* coordinate strictly inside the view.
C10_KeepsExactlyTheVisible ==
    (op.name = "Spiral.step" /\ status = "running" /\ ~Degenerate(prev[1])) =>
        spirals[1].lines = SelectSeq(Grown(prev[1], op.dT).lines,
                                     LAMBDA line : StrictlyInView(view_size, line))

\* a Spiral.step that removed a line with a coordinate on a bound and kept
\* another line
C10_Witness ==
    /\ op.name = "Spiral.step"
    /\ status = "running"
    /\ ~Degenerate(prev[1])
    /\ spirals[1].lines # <<>>
    /\ \E k \in DOMAIN Grown(prev[1], op.dT).lines :
          LET line == Grown(prev[1], op.dT).lines[k]
          IN  /\ OnBound(view_size, line)
              /\ ~StrictlyInView(view_size, line)
              /\ \A j \in DOMAIN spirals[1].lines : spirals[1].lines[j] # line

====
